---- MODULE Spec2Model ----
(***************************************************************************)
(* A model of GodotRedux (src/src/godot_redux.rs): a store holding one     *)
(* state Dictionary, one reducer FuncRef, a Vec of middleware FuncRefs and *)
(* a Vec of subscription FuncRefs.                                         *)
(*                                                                         *)
(* Godot Dictionaries are reference-counted shared containers, so the      *)
(* model keeps a heap of dictionary objects and the store's `state` field  *)
(* is a reference into it.  FuncRef::call_func never raises into the Rust  *)
(* caller: when the target is missing, or the script function errors, the  *)
(* call yields a Nil Variant.  User callables never mutate the            *)
(* dictionaries they are given.  Two of them, redispatch_callback and      *)
(* redispatch_middleware, call dispatch on the store from inside their own *)
(* call; Spec registers only callables that do not, SpecReentrant          *)
(* registers those two as well.                                            *)
(*                                                                         *)
(* The caller keeps no reference to the dictionary it passes to            *)
(* set_state_and_reducer, and uses the value state() returned before it    *)
(* calls the store again.  Actions are i64 and indexes usize in the source; *)
(* the values met here are far from either limit.                          *)
(*                                                                         *)
(* hist, config, mwSince, subsSince, mutated and configCalls record what   *)
(* was called and with what; no method reads them.                         *)
(***************************************************************************)
EXTENDS Integers, Sequences, FiniteSets

\* ------------------------------------------------------------- bounds
\* Most calls of add_middleware, subscribe and dispatch that the model
\* explores between two resets of the store.
MaxCalls == 4
\* Number of dictionary objects the heap can hold at once.
MaxObj == 6

\* ------------------------------------------------------------- values
\* The Action enum of the doc examples.
INCREMENT == 0
DECREMENT == 1
Actions == {INCREMENT, DECREMENT}

Refs == 1..MaxObj
\* The reference held by nobody.
NullRef == 0

\* A dictionary object on the heap: the keys it holds, the integer under
\* "counter" and the reference under "nested" (both normalised when absent).
\* `live` tells an object in use from a free slot.
FreeObj == [live |-> FALSE, keys |-> {}, counter |-> 0, nested |-> NullRef]

\* Dictionaries by value (what a deep comparison sees).
EmptyNested == [keys |-> {}, counter |-> 0]
EmptyDict == [keys |-> {}, counter |-> 0, nested |-> EmptyNested]
CounterDict(n) == [keys |-> {"counter"}, counter |-> n, nested |-> EmptyNested]
NestedDict(n, m) ==
    [keys |-> {"counter", "nested"}, counter |-> n,
     nested |-> [keys |-> {"counter"}, counter |-> m]]

\* The initial states a caller passes to set_state_and_reducer.
InitialStates == {CounterDict(0), NestedDict(0, 0)}

\* The value of the dictionary at r, nested dictionary included.
DeepVal(h, r) ==
    [keys |-> h[r].keys,
     counter |-> h[r].counter,
     nested |-> IF "nested" \in h[r].keys
                THEN [keys |-> h[h[r].nested].keys \cap {"counter"},
                      counter |-> h[h[r].nested].counter]
                ELSE EmptyNested]

\* The lowest free slot of the heap.
Fresh(h) ==
    CHOOSE r \in Refs : ~h[r].live /\ \A q \in Refs : ~h[q].live => r <= q

\* The live references in the order the store reaches them: the state,
\* its nested dictionary, the caller's copy, its nested dictionary.
NestedOf(h, r) ==
    IF r # NullRef /\ "nested" \in h[r].keys THEN <<h[r].nested>> ELSE <<>>

RECURSIVE Dedup(_)
Dedup(s) ==
    IF s = <<>> THEN <<>>
    ELSE LET front == Dedup(SubSeq(s, 1, Len(s) - 1))
             x == s[Len(s)]
         IN IF \E i \in 1..Len(front) : front[i] = x THEN front
            ELSE Append(front, x)

LiveOrder(h, s, k) ==
    Dedup(<<s>> \o NestedOf(h, s)
          \o (IF k = NullRef THEN <<>> ELSE <<k>>) \o NestedOf(h, k))

\* Where a live reference sits once the heap is compacted.
Slot(order, r) ==
    IF r = NullRef THEN NullRef
    ELSE CHOOSE i \in 1..Len(order) : order[i] = r

\* Dropping the last reference to a dictionary frees it; the dictionaries
\* that stay are moved to the front of the heap (a reference is only ever
\* compared for identity, so its number does not matter).
Collect(h, s, k) ==
    LET order == LiveOrder(h, s, k)
    IN [r \in Refs |->
          IF r <= Len(order)
          THEN [h[order[r]] EXCEPT !.nested = IF "nested" \in h[order[r]].keys
                                               THEN Slot(order, @) ELSE NullRef]
          ELSE FreeObj]

\* A new dictionary holding the value v: the heap after it and the
\* reference to it.
NewDictionary(h, v) ==
    LET r1 == Fresh(h)
        h1 == [h EXCEPT ![r1] = [live |-> TRUE, keys |-> v.keys,
                                 counter |-> v.counter, nested |-> NullRef]]
        r2 == Fresh(h1)
    IN IF "nested" \in v.keys
       THEN [heap |-> [h1 EXCEPT
                         ![r1].nested = r2,
                         ![r2] = [live |-> TRUE, keys |-> v.nested.keys,
                                  counter |-> v.nested.counter,
                                  nested |-> NullRef]],
             ref |-> r1]
       ELSE [heap |-> h1, ref |-> r1]

\* ------------------------------------------------------------ Variants
Nil == [type |-> "Nil", int |-> 0, dict |-> EmptyDict]
VarI64(x) == [type |-> "I64", int |-> x, dict |-> EmptyDict]
VarString == [type |-> "String", int |-> 0, dict |-> EmptyDict]
VarDict(v) == [type |-> "Dictionary", int |-> 0, dict |-> v]

\* Variant::try_to_i64: Some(x) only for a Variant of type I64.
try_to_i64(v) ==
    IF v.type = "I64" THEN [some |-> TRUE, x |-> v.int]
    ELSE [some |-> FALSE, x |-> 0]

\* Variant::to_dictionary: the dictionary, or an empty one for any other type.
to_dictionary(v) == IF v.type = "Dictionary" THEN v.dict ELSE EmptyDict

\* ------------------------------------------------------- user callables
\* A FuncRef::new() that was never given an instance and a function.
Unbound == "unbound"
\* The (instance, function name) pairs callers hand to the store.  The
\* "missing_*" handles name a function that does not exist on the instance.
ReducerHandles == {"reducer", "missing_reducer"}
MiddlewareHandles ==
    {"inc_middleware", "veto_middleware", "missing_middleware"}
SubscriberHandles == {"print_counter", "missing_callback"}
\* The handles registered where callables may call dispatch themselves.
ReentrantMiddlewareHandles == {"redispatch_middleware", "veto_middleware"}
ReentrantSubscriberHandles == {"redispatch_callback", "print_counter"}

\* What call_func hands back: the Variant, and whether the call failed
\* (the store only ever sees the Variant).
Returned(v) == [ret |-> v, failed |-> FALSE]
Failed == [ret |-> Nil, failed |-> TRUE]

\* self.reducer.call_func([state, action]).  "reducer" is the counter
\* reducer of the doc examples: it returns a new dictionary for INCREMENT
\* and DECREMENT, nothing (null) for any other action, and errors when the
\* state has no counter.
ReducerCall(handle, s, action) ==
    IF handle = "reducer"
    THEN IF action \notin Actions THEN Returned(Nil)
         ELSE IF "counter" \notin s.keys THEN Failed
         ELSE IF action = INCREMENT
              THEN Returned(VarDict(CounterDict(s.counter + 1)))
              ELSE Returned(VarDict(CounterDict(s.counter - 1)))
    ELSE Failed

\* self.middleware[index].call_func([state, action]).
\*   inc_middleware      returns action + 1
\*   veto_middleware     returns a non-integer for DECREMENT, else the action
\*   redispatch_middleware  returns the action (see MiddlewareDispatches)
MiddlewareCall(handle, s, action) ==
    CASE handle = "inc_middleware" -> Returned(VarI64(action + 1))
      [] handle = "redispatch_middleware" -> Returned(VarI64(action))
      [] handle = "veto_middleware" ->
            IF action = DECREMENT THEN Returned(VarString)
            ELSE Returned(VarI64(action))
      [] OTHER -> Failed

\* subscription.call_func([state]); a callback returns nothing.
SubscriberCall(handle, s) ==
    IF handle = "missing_callback" THEN Failed ELSE Returned(Nil)

\* redispatch_middleware calls store.dispatch(DECREMENT) before it returns
\* when it is given INCREMENT.
MiddlewareDispatches(handle, s, action) ==
    handle = "redispatch_middleware" /\ action = INCREMENT

\* redispatch_callback calls store.dispatch(DECREMENT) when it is told of a
\* state whose counter is 1.
SubscriberDispatches(handle, s) ==
    handle = "redispatch_callback" /\ "counter" \in s.keys /\ s.counter = 1

\* One record of the call log: which callable was called, with what, and
\* what came back.  depth is 0 for a call made by a dispatch the caller
\* issued and d + 1 for one made by a dispatch issued from inside a call of
\* depth d.
CallRec(fn, index, handle, s, action, res) ==
    [fn |-> fn, index |-> index, handle |-> handle, state |-> s,
     action |-> action, ret |-> res.ret, failed |-> res.failed, depth |-> 0]

\* ----------------------------------------------------------------- state
VARIABLES
    state,          \* GodotRedux.state: a reference to a Dictionary
    reducer,        \* GodotRedux.reducer
    middleware,     \* GodotRedux.middleware
    subscriptions,  \* GodotRedux.subscriptions
    heap,           \* the dictionary objects
    held,           \* the caller's reference to the last value of state()
    hist,           \* log: the dispatches since the store was last reset
    config,         \* log: the arguments of the last set_state_and_reducer,
                    \*      and whether it found handles registered
    mwSince,        \* log: the add_middleware calls since the last reset
    subsSince,      \* log: the subscribe calls since the last reset
    mutated,        \* log: the caller wrote into a value state() returned
    configCalls     \* log: the calls made by the methods other than dispatch

\* The add_middleware, subscribe and dispatch calls since the last reset.
Calls == Len(mwSince) + Len(subsSince) + Len(hist)

vars == <<state, reducer, middleware, subscriptions, heap, held, hist,
          config, mwSince, subsSince, mutated, configCalls>>

\* The store as the methods see it, with the log of the calls they make.
Self ==
    [state |-> state, reducer |-> reducer, middleware |-> middleware,
     subscriptions |-> subscriptions, heap |-> heap, calls |-> <<>>,
     depth |-> 0]

\* -------------------------------------------------------------- pipeline
RECURSIVE dispatch(_, _)

\* The call is added to the log at the depth of the dispatch making it.
Logged(self, rec) ==
    [self EXCEPT !.calls = Append(@, [rec EXCEPT !.depth = self.depth])]

\* A callable calls store.dispatch(action) from inside its own call: the
\* nested dispatch runs on the same store, on top of the call in progress,
\* and control comes back to the callable when it returns.
Reenter(self, action) ==
    [dispatch([self EXCEPT !.depth = @ + 1], action)
        EXCEPT !.depth = self.depth]

\* subscription.call_func(args) for the i-th subscription, with whatever
\* the callback does to the store before it returns.
call_subscription(self, i, arg) ==
    LET handle == self.subscriptions[i]
        called == Logged(self, CallRec("subscriber", i - 1, handle, arg, 0,
                                       SubscriberCall(handle, arg)))
    IN IF SubscriberDispatches(handle, arg)
       THEN Reenter(called, DECREMENT)
       ELSE called

\* for subscription in &self.subscriptions, from the i-th to the n-th.
RECURSIVE run_subscriptions(_, _, _, _)
run_subscriptions(self, arg, i, n) ==
    IF i > n THEN self
    ELSE run_subscriptions(call_subscription(self, i, arg), arg, i + 1, n)

\* Mutant loop: the arguments are built again for every subscription.
RECURSIVE run_subscriptions_Rereading(_, _, _)
run_subscriptions_Rereading(self, i, n) ==
    IF i > n THEN self
    ELSE run_subscriptions_Rereading(
            call_subscription(self, i, DeepVal(self.heap, self.state)),
            i + 1, n)

\* Mutant: the loop stops one subscription short.
dispatch_subscriptions_SkipsLast(self) ==
    LET n == Len(self.subscriptions)
    IN run_subscriptions(self, DeepVal(self.heap, self.state), 1,
                         IF n = 0 THEN 0 ELSE n - 1)

\* Mutant: the arguments are built inside the loop, from the state the
\* store holds when each subscription is called.
dispatch_subscriptions_RereadsState(self) ==
    run_subscriptions_Rereading(self, 1, Len(self.subscriptions))

\* The arguments are built once, before the loop, from self.state.
dispatch_subscriptions(self) ==
    run_subscriptions(self, DeepVal(self.heap, self.state), 1,
                      Len(self.subscriptions))

\* Mutant: the subscriptions run before the new state is stored.
dispatch_reducer_NotifiesFirst(self, action) ==
    LET arg == DeepVal(self.heap, self.state)
        res == ReducerCall(self.reducer, arg, action)
        told == dispatch_subscriptions(
                  Logged(self, CallRec("reducer", 0, self.reducer, arg,
                                       action, res)))
        new == NewDictionary(told.heap, to_dictionary(res.ret))
    IN [told EXCEPT !.heap = new.heap, !.state = new.ref]

\* Mutant: the reducer's result is dropped instead of stored.
dispatch_reducer_KeepsState(self, action) ==
    LET arg == DeepVal(self.heap, self.state)
        res == ReducerCall(self.reducer, arg, action)
    IN dispatch_subscriptions(
         Logged(self, CallRec("reducer", 0, self.reducer, arg, action, res)))

\* Mutant: the reducer is taken out of the store for the call and not put
\* back.
dispatch_reducer_TakesReducer(self, action) ==
    LET arg == DeepVal(self.heap, self.state)
        res == ReducerCall(self.reducer, arg, action)
        new == NewDictionary(self.heap, to_dictionary(res.ret))
    IN dispatch_subscriptions(
         Logged([self EXCEPT !.heap = new.heap, !.state = new.ref,
                             !.reducer = Unbound],
                CallRec("reducer", 0, self.reducer, arg, action, res)))

\* Mutant: the subscriptions are gone through a second time.
dispatch_reducer_NotifiesTwice(self, action) ==
    LET arg == DeepVal(self.heap, self.state)
        res == ReducerCall(self.reducer, arg, action)
        new == NewDictionary(self.heap, to_dictionary(res.ret))
    IN dispatch_subscriptions(dispatch_subscriptions(
         Logged([self EXCEPT !.heap = new.heap, !.state = new.ref],
                CallRec("reducer", 0, self.reducer, arg, action, res))))

\* Mutant: the reducer's result is merged into the old state, so an entry
\* the result does not have survives.
dispatch_reducer_Merges(self, action) ==
    LET arg == DeepVal(self.heap, self.state)
        res == ReducerCall(self.reducer, arg, action)
        got == to_dictionary(res.ret)
        merged == [keys |-> arg.keys \cup got.keys,
                   counter |-> IF "counter" \in got.keys THEN got.counter
                               ELSE arg.counter,
                   nested |-> IF "nested" \in got.keys THEN got.nested
                              ELSE arg.nested]
        new == NewDictionary(self.heap, merged)
    IN dispatch_subscriptions(
         Logged([self EXCEPT !.heap = new.heap, !.state = new.ref],
                CallRec("reducer", 0, self.reducer, arg, action, res)))

dispatch_reducer(self, action) ==
    LET arg == DeepVal(self.heap, self.state)
        res == ReducerCall(self.reducer, arg, action)
        new == NewDictionary(self.heap, to_dictionary(res.ret))
    IN dispatch_subscriptions(
         Logged([self EXCEPT !.heap = new.heap, !.state = new.ref],
                CallRec("reducer", 0, self.reducer, arg, action, res)))

\* self.middleware[index].call_func(args), with whatever the middleware
\* does to the store before it returns.
call_middleware(self, index, action) ==
    LET handle == self.middleware[index + 1]
        arg == DeepVal(self.heap, self.state)
        called == Logged(self, CallRec("middleware", index, handle, arg,
                                       action,
                                       MiddlewareCall(handle, arg, action)))
    IN IF MiddlewareDispatches(handle, arg, action)
       THEN Reenter(called, DECREMENT)
       ELSE called

RECURSIVE dispatch_middleware(_, _, _)
\* Mutant: the next middleware gets the dispatched action, not the one the
\* previous middleware returned.
dispatch_middleware_SameAction(self, index, action) ==
    IF index = Len(self.middleware)
    THEN dispatch_reducer(self, action)
    ELSE LET arg == DeepVal(self.heap, self.state)
             res == MiddlewareCall(self.middleware[index + 1], arg, action)
             next_to_int == try_to_i64(res.ret)
             called == call_middleware(self, index, action)
         IN IF next_to_int.some
            THEN dispatch_middleware(called, index + 1, action)
            ELSE called

\* Mutant: a result that is no action does not stop the chain; the reducer
\* runs with the action the middleware was given.
dispatch_middleware_FallsThrough(self, index, action) ==
    IF index = Len(self.middleware)
    THEN dispatch_reducer(self, action)
    ELSE LET arg == DeepVal(self.heap, self.state)
             res == MiddlewareCall(self.middleware[index + 1], arg, action)
             next_to_int == try_to_i64(res.ret)
             called == call_middleware(self, index, action)
         IN IF next_to_int.some
            THEN dispatch_middleware(called, index + 1, next_to_int.x)
            ELSE dispatch_reducer(called, action)

dispatch_middleware(self, index, action) ==
    IF index = Len(self.middleware)
    THEN dispatch_reducer(self, action)
    ELSE LET arg == DeepVal(self.heap, self.state)
             res == MiddlewareCall(self.middleware[index + 1], arg, action)
             next_to_int == try_to_i64(res.ret)
             called == call_middleware(self, index, action)
         IN IF next_to_int.some
            THEN dispatch_middleware(called, index + 1, next_to_int.x)
            ELSE called

\* Mutant: the middleware list is never consulted.
dispatch_SkipsMiddleware(self, action) == dispatch_reducer(self, action)

dispatch(self, action) ==
    IF self.middleware = <<>>
    THEN dispatch_reducer(self, action)
    ELSE dispatch_middleware(self, 0, action)

\* ------------------------------------------------- configuration methods
\* new: the default values.
new ==
    LET d == NewDictionary([r \in Refs |-> FreeObj], EmptyDict)
    IN [state |-> d.ref, reducer |-> Unbound, middleware |-> <<>>,
        subscriptions |-> <<>>, heap |-> d.heap, calls |-> <<>>,
        depth |-> 0]

\* Mutant: the reset runs the reducer once on the initial state and tells
\* the subscriptions, before it clears them.
set_state_and_reducer_RunsReducer(self, initial_state, handle) ==
    LET d == NewDictionary(self.heap, initial_state)
        ran == dispatch_reducer([self EXCEPT !.state = d.ref, !.heap = d.heap,
                                             !.reducer = handle], INCREMENT)
    IN [ran EXCEPT !.middleware = <<>>, !.subscriptions = <<>>]

\* Mutant: the subscriptions survive the reset.
set_state_and_reducer_KeepsSubscriptions(self, initial_state, handle) ==
    LET d == NewDictionary(self.heap, initial_state)
    IN [self EXCEPT !.state = d.ref, !.heap = d.heap, !.reducer = handle,
                    !.middleware = <<>>]

\* set_state_and_reducer; initial_state is the dictionary the caller built.
set_state_and_reducer(self, initial_state, handle) ==
    LET d == NewDictionary(self.heap, initial_state)
    IN [self EXCEPT !.state = d.ref, !.heap = d.heap, !.reducer = handle,
                    !.middleware = <<>>, !.subscriptions = <<>>]

\* state: Dictionary::duplicate copies the entries of the top-level
\* dictionary into a new one; a nested dictionary is an entry holding a
\* reference, and the copy holds the same reference.
state_duplicate(self) ==
    LET r == Fresh(self.heap)
    IN [heap |-> [self.heap EXCEPT ![r] = self.heap[self.state]], ref |-> r]

\* Mutant: a callback that is already subscribed is not added again.
subscribe_Dedups(self, handle) ==
    IF \E i \in 1..Len(self.subscriptions) : self.subscriptions[i] = handle
    THEN self
    ELSE [self EXCEPT !.subscriptions = Append(@, handle)]

subscribe(self, handle) ==
    [self EXCEPT !.subscriptions = Append(@, handle)]

add_middleware(self, handle) ==
    [self EXCEPT !.middleware = Append(@, handle)]

\* ---------------------------------------------------------------- actions
\* The store becomes what a method left.  The caller has let go of the
\* value an earlier state() returned, and dictionaries nobody refers to any
\* more are freed.
Becomes(self) ==
    /\ state' = Slot(LiveOrder(self.heap, self.state, NullRef), self.state)
    /\ reducer' = self.reducer
    /\ middleware' = self.middleware
    /\ subscriptions' = self.subscriptions
    /\ heap' = Collect(self.heap, self.state, NullRef)
    /\ held' = NullRef

NoConfig ==
    [set |-> FALSE, initial_state |-> EmptyDict, reducer |-> Unbound,
     discarded |-> FALSE]

Init ==
    /\ state = new.state
    /\ reducer = new.reducer
    /\ middleware = new.middleware
    /\ subscriptions = new.subscriptions
    /\ heap = new.heap
    /\ held = NullRef
    /\ hist = <<>>
    /\ config = NoConfig
    /\ mwSince = <<>>
    /\ subsSince = <<>>
    /\ mutated = FALSE
    /\ configCalls = <<>>

SetStateAndReducer(initial_state, handle) ==
    /\ Becomes(set_state_and_reducer(Self, initial_state, handle))
    /\ configCalls' =
         configCalls \o set_state_and_reducer(Self, initial_state, handle).calls
    /\ hist' = <<>>
    /\ config' = [set |-> TRUE, initial_state |-> initial_state,
                  reducer |-> handle,
                  discarded |-> (middleware # <<>> \/ subscriptions # <<>>)]
    /\ mwSince' = <<>>
    /\ subsSince' = <<>>
    /\ mutated' = FALSE

\* The caller calls state() and keeps the result until it next calls the
\* store.  Like the other calls it is made while the budget of calls lasts.
State ==
    LET d == state_duplicate([Self EXCEPT !.heap = Collect(heap, state, NullRef)])
    IN /\ Calls < MaxCalls
       /\ held' = Slot(LiveOrder(d.heap, state, d.ref), d.ref)
       /\ heap' = Collect(d.heap, state, d.ref)
       /\ UNCHANGED <<state, reducer, middleware, subscriptions, hist,
                      config, mwSince, subsSince, mutated, configCalls>>

Subscribe(handle) ==
    /\ Calls < MaxCalls
    /\ Becomes(subscribe(Self, handle))
    /\ configCalls' = configCalls \o subscribe(Self, handle).calls
    /\ subsSince' = Append(subsSince, handle)
    /\ UNCHANGED <<hist, config, mwSince, mutated>>

AddMiddleware(handle) ==
    /\ Calls < MaxCalls
    /\ Becomes(add_middleware(Self, handle))
    /\ configCalls' = configCalls \o add_middleware(Self, handle).calls
    /\ mwSince' = Append(mwSince, handle)
    /\ UNCHANGED <<hist, config, subsSince, mutated>>

Dispatch(action) ==
    /\ Calls < MaxCalls
    /\ LET done == dispatch(Self, action)
       IN /\ Becomes(done)
          /\ hist' = Append(hist,
               [action |-> action,
                reducer |-> reducer,
                middleware |-> middleware,
                subscriptions |-> subscriptions,
                pre |-> DeepVal(heap, state),
                post |-> DeepVal(done.heap, done.state),
                calls |-> done.calls])
    /\ UNCHANGED <<config, mwSince, subsSince, mutated, configCalls>>

\* The caller writes into the dictionary state() returned, at its top level
\* or into the dictionary nested in it, and lets the dictionary go.
MutateHeld ==
    /\ held # NullRef
    /\ heap' = Collect([heap EXCEPT ![held].keys = @ \cup {"counter"},
                                    ![held].counter = 9],
                       state, NullRef)
    /\ held' = NullRef
    /\ mutated' = TRUE
    /\ UNCHANGED <<state, reducer, middleware, subscriptions, hist,
                   config, mwSince, subsSince, configCalls>>

MutateHeldNested ==
    /\ held # NullRef
    /\ "nested" \in heap[held].keys
    /\ heap' = Collect([heap EXCEPT
                          ![heap[held].nested].keys = @ \cup {"counter"},
                          ![heap[held].nested].counter = 9],
                       state, NullRef)
    /\ held' = NullRef
    /\ mutated' = TRUE
    /\ UNCHANGED <<state, reducer, middleware, subscriptions, hist,
                   config, mwSince, subsSince, configCalls>>

Next ==
    \/ \E s \in InitialStates, h \in ReducerHandles : SetStateAndReducer(s, h)
    \/ State
    \/ \E h \in SubscriberHandles : Subscribe(h)
    \/ \E h \in MiddlewareHandles : AddMiddleware(h)
    \/ \E a \in Actions : Dispatch(a)
    \/ MutateHeld
    \/ MutateHeldNested

Spec == Init /\ [][Next]_vars

\* The store used with callables that may call dispatch from inside their
\* own call, on a counter state with the documented reducer.
NextReentrant ==
    \/ SetStateAndReducer(CounterDict(0), "reducer")
    \/ \E h \in ReentrantSubscriberHandles : Subscribe(h)
    \/ \E h \in ReentrantMiddlewareHandles : AddMiddleware(h)
    \/ \E a \in Actions : Dispatch(a)

SpecReentrant == Init /\ [][NextReentrant]_vars

\* ------------------------------------------------------ reading the log
\* The calls of one dispatch made to one kind of callable.
CallsTo(e, fn) == SelectSeq(e.calls, LAMBDA c : c.fn = fn)

\* The action the middleware chain mws hands on after its first k members,
\* each applied to the state s and to what its predecessor returned.
RECURSIVE Compose(_, _, _, _)
Compose(mws, s, a, k) ==
    IF k = 0 THEN a
    ELSE MiddlewareCall(mws[k], s, Compose(mws, s, a, k - 1)).ret.int

\* The k-th member of the chain returns a valid action.
ValidAt(mws, s, a, k) ==
    MiddlewareCall(mws[k], s, Compose(mws, s, a, k - 1)).ret.type = "I64"

AllValid(e) ==
    \A k \in 1..Len(e.middleware) : ValidAt(e.middleware, e.pre, e.action, k)

\* The first member of the chain that returns no valid action.
FirstInvalid(e) ==
    CHOOSE k \in 1..Len(e.middleware) :
        /\ ~ValidAt(e.middleware, e.pre, e.action, k)
        /\ \A q \in 1..(k - 1) : ValidAt(e.middleware, e.pre, e.action, q)

\* The subscriber calls of a dispatch are one per subscriber registered at
\* the time, in registration order, each with the state s.
NotifiedAllWith(e, s) ==
    LET subs == CallsTo(e, "subscriber")
    IN /\ Len(subs) = Len(e.subscriptions)
       /\ \A i \in 1..Len(subs) :
            /\ subs[i].index = i - 1
            /\ subs[i].handle = e.subscriptions[i]
            /\ subs[i].state = s

\* ------------------------------------------------------------------ C1
\* C1: with an empty middleware list, a dispatch on a configured store
\* whose reducer returns a state calls the reducer exactly once, with the
\* state before the dispatch and the dispatched action, makes what it
\* returned the store's state, and then calls every subscriber exactly
\* once, in registration order, each with that new state.
C1_EmptyMiddlewareDispatch ==
    \A j \in 1..Len(hist) :
        LET e == hist[j]
            r == ReducerCall(e.reducer, e.pre, e.action)
        IN (e.reducer # Unbound /\ e.middleware = <<>>
            /\ r.ret.type = "Dictionary")
           => /\ Len(e.calls) = 1 + Len(e.subscriptions)
              /\ e.calls[1] = CallRec("reducer", 0, e.reducer, e.pre,
                                      e.action, r)
              /\ e.post = r.ret.dict
              /\ \A i \in 1..Len(e.subscriptions) :
                    e.calls[1 + i] =
                        CallRec("subscriber", i - 1, e.subscriptions[i],
                                e.post, 0,
                                SubscriberCall(e.subscriptions[i], e.post))

\* A dispatch without middleware changed the state and notified two
\* different subscribers.
C1_Witness ==
    \E j \in 1..Len(hist) :
        /\ hist[j].reducer = "reducer"
        /\ hist[j].middleware = <<>>
        /\ hist[j].subscriptions = <<"missing_callback", "print_counter">>
        /\ hist[j].post # hist[j].pre
        /\ Len(hist[j].calls) = 3

\* ------------------------------------------------------------------ C2
\* C2: when every middleware of the chain returns a valid action, a
\* dispatch calls each middleware exactly once, in insertion order, each
\* with the store's state and the action its predecessor returned (the
\* first with the dispatched action), and then the reducer with the action
\* the last one returned; two middleware returning action + 1 make the
\* reducer receive action + 2.
C2_ChainComposes ==
    \A j \in 1..Len(hist) :
        LET e == hist[j]
            n == Len(e.middleware)
        IN (n > 0 /\ AllValid(e))
           => /\ Len(CallsTo(e, "middleware")) = n
              /\ Len(CallsTo(e, "reducer")) = 1
              /\ \A k \in 1..n :
                    e.calls[k] =
                        CallRec("middleware", k - 1, e.middleware[k], e.pre,
                                Compose(e.middleware, e.pre, e.action, k - 1),
                                MiddlewareCall(e.middleware[k], e.pre,
                                    Compose(e.middleware, e.pre, e.action,
                                            k - 1)))
              /\ e.calls[n + 1].fn = "reducer"
              /\ e.calls[n + 1].state = e.pre
              /\ e.calls[n + 1].action =
                    Compose(e.middleware, e.pre, e.action, n)
              /\ (e.middleware = <<"inc_middleware", "inc_middleware">>
                    => e.calls[n + 1].action = e.action + 2)

\* A dispatch went through two middleware that each returned action + 1.
C2_Witness ==
    \E j \in 1..Len(hist) :
        /\ hist[j].middleware = <<"inc_middleware", "inc_middleware">>
        /\ hist[j].action = DECREMENT
        /\ Len(hist[j].calls) >= 3
        /\ hist[j].calls[3].action = 3

\* ------------------------------------------------------------------ C3
\* C3: when the middleware at index i returns something that is not a
\* valid action, the calls of the dispatch are exactly the middleware at
\* indexes 0..i: no later middleware, no reducer and no subscriber is
\* called, and the state after the dispatch is the state before it.
C3_VetoHalts ==
    \A j \in 1..Len(hist) :
        LET e == hist[j]
        IN ~AllValid(e)
           => LET i == FirstInvalid(e)
              IN /\ Len(e.calls) = i
                 /\ \A k \in 1..i :
                       /\ e.calls[k].fn = "middleware"
                       /\ e.calls[k].index = k - 1
                 /\ e.post = e.pre

\* The first of two middleware vetoed a dispatch on a configured store with
\* a subscriber.
C3_Witness ==
    \E j \in 1..Len(hist) :
        /\ hist[j].reducer = "reducer"
        /\ hist[j].middleware = <<"veto_middleware", "inc_middleware">>
        /\ hist[j].subscriptions # <<>>
        /\ hist[j].action = DECREMENT
        /\ Len(hist[j].calls) = 1

\* ------------------------------------------------------------------ C4
\* C4: set_state_and_reducer is a full reset.  From it on the reducer bound
\* is the one it was given, the middleware and the subscribers are exactly
\* those registered since (none right after it), the state is the given
\* initial state until a dispatch or the caller changes it, and every call
\* a later dispatch makes goes to the reducer it was given or to a handle
\* registered since.
C4_FullReset ==
    config.set
    => /\ reducer = config.reducer
       /\ middleware = mwSince
       /\ subscriptions = subsSince
       /\ (hist = <<>> /\ ~mutated
             => DeepVal(heap, state) = config.initial_state)
       /\ \A j \in 1..Len(hist) : \A k \in 1..Len(hist[j].calls) :
            LET c == hist[j].calls[k]
            IN CASE c.fn = "reducer" -> c.handle = config.reducer
                 [] c.fn = "middleware" ->
                        /\ c.index < Len(mwSince)
                        /\ c.handle = mwSince[c.index + 1]
                 [] OTHER ->
                        /\ c.index < Len(subsSince)
                        /\ c.handle = subsSince[c.index + 1]

\* A reset discarded registered handles, and a dispatch after it called
\* the reducer alone.
C4_Witness ==
    /\ config.set
    /\ config.discarded
    /\ subscriptions = <<>>
    /\ middleware = <<>>
    /\ Len(hist) = 1
    /\ Len(hist[1].calls) = 1
    /\ hist[1].calls[1].fn = "reducer"

\* ------------------------------------------------------------------ C5
\* C5 (as claimed): a write into the value state() returned, at its top
\* level or into a dictionary nested in it, leaves the value of the store's
\* state as it was.
C5_StateIsDeepCopy ==
    [][(MutateHeld \/ MutateHeldNested)
         => DeepVal(heap', state') = DeepVal(heap, state)]_vars

\* ------------------------------------------------------------------ C6
\* C6 (as claimed): a dispatch on a store that has no reducer bound does
\* not go through the pipeline: it calls no middleware, no reducer and no
\* subscriber.
C6_UnconfiguredDispatchFailsFast ==
    \A j \in 1..Len(hist) :
        hist[j].reducer = Unbound
        => /\ CallsTo(hist[j], "middleware") = <<>>
           /\ CallsTo(hist[j], "subscriber") = <<>>

\* ------------------------------------------------------------------ C7
\* C7 (as claimed): when the call of the reducer fails, the state after the
\* dispatch is the state before it and no subscriber is notified.
C7_ReducerFailureKeepsState ==
    \A j \in 1..Len(hist) :
        LET e == hist[j]
        IN (e.reducer # Unbound
            /\ \E k \in 1..Len(e.calls) :
                 e.calls[k].fn = "reducer" /\ e.calls[k].failed)
           => /\ e.post = e.pre
              /\ CallsTo(e, "subscriber") = <<>>

\* ------------------------------------------------------- runs of dispatches
\* The state the reducer h makes of s0 after the first k of the actions.
RECURSIVE StateAfter(_, _, _, _)
StateAfter(h, s0, acts, k) ==
    IF k = 0 THEN s0
    ELSE ReducerCall(h, StateAfter(h, s0, acts, k - 1), acts[k]).ret.dict

\* The reducer h returns a state at every step of the fold.
ReducerTotal(h, s0, acts) ==
    \A k \in 1..Len(acts) :
        ReducerCall(h, StateAfter(h, s0, acts, k - 1), acts[k]).ret.type
            = "Dictionary"

\* The actions of the first k dispatches that no middleware vetoed.
RECURSIVE PassedActions(_)
PassedActions(k) ==
    IF k = 0 THEN <<>>
    ELSE PassedActions(k - 1)
         \o (IF AllValid(hist[k]) THEN <<hist[k].action>> ELSE <<>>)

\* The states the i-th subscriber was called with in the first k dispatches.
RECURSIVE Notes(_, _)
Notes(i, k) ==
    IF k = 0 THEN <<>>
    ELSE LET mine == SelectSeq(CallsTo(hist[k], "subscriber"),
                               LAMBDA c : c.index = i - 1)
         IN Notes(i, k - 1) \o [n \in 1..Len(mine) |-> mine[n].state]

\* The states after those of the first k dispatches that the i-th
\* subscriber was registered for and that no middleware vetoed.
RECURSIVE Committed(_, _)
Committed(i, k) ==
    IF k = 0 THEN <<>>
    ELSE Committed(i, k - 1)
         \o (IF Len(hist[k].subscriptions) >= i /\ AllValid(hist[k])
             THEN <<StateAfter(config.reducer, config.initial_state,
                               PassedActions(k), Len(PassedActions(k)))>>
             ELSE <<>>)

\* ------------------------------------------------------------------ C8
\* C8: after the dispatches a1..ak on a configured store that never had a
\* middleware, with a reducer that returns a state each time and no write
\* by the caller, the state is the left fold of the reducer over a1..ak
\* from the initial state, and a subscriber was called once for each
\* dispatch made since it subscribed, the j-th time with the state after
\* the j-th of them; one registered before the first dispatch was called
\* exactly k times.
C8_FoldOfReducer ==
    LET acts == [j \in 1..Len(hist) |-> hist[j].action]
    IN (/\ config.set
        /\ ~mutated
        /\ middleware = <<>>
        /\ \A j \in 1..Len(hist) : hist[j].middleware = <<>>
        /\ ReducerTotal(config.reducer, config.initial_state, acts))
       => /\ DeepVal(heap, state) =
                StateAfter(config.reducer, config.initial_state, acts,
                           Len(acts))
          /\ \A i \in 1..Len(subscriptions) :
                /\ Notes(i, Len(hist)) = Committed(i, Len(hist))
                /\ (hist # <<>> /\ Len(hist[1].subscriptions) >= i
                      => Len(Notes(i, Len(hist))) = Len(hist))

\* The counter example: from {counter: 0}, INCREMENT, INCREMENT, DECREMENT
\* end at {counter: 1} and the subscriber saw 1, 2, 1.
C8_Witness ==
    /\ config.set
    /\ ~mutated
    /\ config.initial_state = CounterDict(0)
    /\ subscriptions = <<"print_counter">>
    /\ Len(hist) = 3
    /\ hist[1].subscriptions = <<"print_counter">>
    /\ [j \in 1..3 |-> hist[j].action] = <<INCREMENT, INCREMENT, DECREMENT>>
    /\ DeepVal(heap, state) = CounterDict(1)
    /\ Notes(1, 3) = <<CounterDict(1), CounterDict(2), CounterDict(1)>>

\* ------------------------------------------------------------------ C9
\* C9: through middleware that veto some actions and pass the others on
\* unchanged, with a reducer that returns a state each time and no write by
\* the caller, the state is the fold of the reducer over the actions that
\* were not vetoed, and a subscriber was called once for each dispatch that
\* was not vetoed since it subscribed.
C9_VetoIsPerDispatch ==
    LET passed == PassedActions(Len(hist))
    IN (/\ config.set
        /\ ~mutated
        /\ \A j \in 1..Len(hist) : \A k \in 1..Len(hist[j].middleware) :
              hist[j].middleware[k] = "veto_middleware"
        /\ ReducerTotal(config.reducer, config.initial_state, passed))
       => /\ DeepVal(heap, state) =
                StateAfter(config.reducer, config.initial_state, passed,
                           Len(passed))
          /\ \A i \in 1..Len(subscriptions) :
                /\ Notes(i, Len(hist)) = Committed(i, Len(hist))
                /\ Len(Notes(i, Len(hist))) =
                      Cardinality({j \in 1..Len(hist) :
                                     /\ AllValid(hist[j])
                                     /\ Len(hist[j].subscriptions) >= i})

\* A vetoed DECREMENT was followed by an INCREMENT that went through: the
\* subscriber was called once and the counter is 1.
C9_Witness ==
    /\ config.set
    /\ ~mutated
    /\ Len(hist) = 2
    /\ hist[1].middleware = <<"veto_middleware">>
    /\ hist[1].subscriptions = <<"print_counter">>
    /\ hist[1].action = DECREMENT
    /\ hist[2].action = INCREMENT
    /\ hist[1].calls = <<hist[1].calls[1]>>
    /\ Notes(1, 2) = <<CounterDict(1)>>
    /\ DeepVal(heap, state) = CounterDict(1)

\* ----------------------------------------------------------------- C10
\* The dispatch called the reducer exactly once, what the reducer returned
\* replaced the state, and every subscriber registered was called.
Completed(e) ==
    LET rc == CallsTo(e, "reducer")
    IN /\ Len(rc) = 1
       /\ e.post = to_dictionary(rc[1].ret)
       /\ NotifiedAllWith(e, e.post)
       /\ Len(e.calls) =
             Len(CallsTo(e, "middleware")) + 1 + Len(e.subscriptions)

\* The dispatch stopped at a middleware that returned no action: the
\* reducer was not called, the state is as before, nobody was notified.
Aborted(e) ==
    /\ e.calls # <<>>
    /\ \A k \in 1..Len(e.calls) : e.calls[k].fn = "middleware"
    /\ ~try_to_i64(e.calls[Len(e.calls)].ret).some
    /\ e.post = e.pre

\* C10: every dispatch on a configured store either completed or aborted,
\* never both and never anything in between.
C10_CompletesOrAborts ==
    \A j \in 1..Len(hist) :
        hist[j].reducer # Unbound
        => (Completed(hist[j]) /\ ~Aborted(hist[j]))
           \/ (Aborted(hist[j]) /\ ~Completed(hist[j]))

\* One dispatch went through a middleware and completed, notifying a
\* subscriber, and another was aborted.
C10_Witness ==
    /\ config.set
    /\ \E j \in 1..Len(hist) :
          /\ Completed(hist[j])
          /\ hist[j].middleware # <<>>
          /\ hist[j].subscriptions # <<>>
          /\ hist[j].post # hist[j].pre
    /\ \E j \in 1..Len(hist) :
          /\ Aborted(hist[j])
          /\ hist[j].subscriptions # <<>>

IsPrefix(s, t) == Len(s) <= Len(t) /\ SubSeq(t, 1, Len(s)) = s

\* The handles the calls of one kind went to, in call order.
HandlesCalled(e, fn) ==
    LET cs == CallsTo(e, fn) IN [i \in 1..Len(cs) |-> cs[i].handle]

\* A step is a set_state_and_reducer exactly when it leaves every log of
\* what happened since the last reset empty and the caller holding nothing.
ResetStep ==
    /\ config'.set
    /\ hist' = <<>> /\ mwSince' = <<>> /\ subsSince' = <<>>
    /\ ~mutated' /\ held' = NullRef

\* C12: subscribe and add_middleware only ever append.  A subscribe step
\* puts the handle at the end of the subscriptions, also when it is there
\* already, and leaves the state, the reducer and the middleware as they
\* were; an add_middleware step does the same to the middleware list; no
\* step other than set_state_and_reducer removes or reorders an element of
\* either list; and a dispatch calls the list as it stands, so a handle
\* registered twice is called twice.
C12_AppendOnly ==
    [][/\ Len(subsSince') = Len(subsSince) + 1
          => /\ subscriptions' =
                   Append(subscriptions, subsSince'[Len(subsSince')])
             /\ middleware' = middleware
             /\ reducer' = reducer
             /\ DeepVal(heap', state') = DeepVal(heap, state)
       /\ Len(mwSince') = Len(mwSince) + 1
          => /\ middleware' = Append(middleware, mwSince'[Len(mwSince')])
             /\ subscriptions' = subscriptions
             /\ reducer' = reducer
             /\ DeepVal(heap', state') = DeepVal(heap, state)
       /\ ~ResetStep
          => /\ IsPrefix(subscriptions, subscriptions')
             /\ IsPrefix(middleware, middleware')
       /\ Len(hist') = Len(hist) + 1
          => LET e == hist'[Len(hist')]
             IN /\ IsPrefix(HandlesCalled(e, "middleware"), middleware)
                /\ AllValid(e) => HandlesCalled(e, "middleware") = middleware
                /\ CallsTo(e, "reducer") # <<>>
                     => HandlesCalled(e, "subscriber") = subscriptions
      ]_vars

\* The same callback was subscribed twice, behind a middleware, and a
\* dispatch called it twice.
C12_Witness ==
    /\ subscriptions = <<"print_counter", "print_counter">>
    /\ middleware # <<>>
    /\ \E j \in 1..Len(hist) :
          /\ hist[j].subscriptions = subscriptions
          /\ HandlesCalled(hist[j], "subscriber") =
                <<"print_counter", "print_counter">>

\* ------------------------------------------------ dispatches from callables
\* Where the calls made from inside the p-th call of a log end: the first
\* later call that is not deeper than the p-th, or the end of the log.
SegmentEnd(cs, p) ==
    LET later == {q \in (p + 1)..Len(cs) : cs[q].depth <= cs[p].depth}
    IN IF later = {} THEN Len(cs) + 1
       ELSE CHOOSE q \in later : \A r \in later : q <= r

\* The calls of the dispatch issued from inside the p-th call: those made
\* before the p-th call returned, one level deeper than it.
NestedUnder(cs, p) ==
    SelectSeq(SubSeq(cs, p + 1, SegmentEnd(cs, p) - 1),
              LAMBDA c : c.depth = cs[p].depth + 1)

\* The calls of a whole pipeline: every middleware in order, the reducer,
\* every subscriber in order.
CompletePipeline(seq, e) ==
    LET n == Len(e.middleware)
        m == Len(e.subscriptions)
    IN /\ Len(seq) = n + 1 + m
       /\ \A k \in 1..n :
             /\ seq[k].fn = "middleware"
             /\ seq[k].index = k - 1
             /\ seq[k].handle = e.middleware[k]
       /\ seq[n + 1].fn = "reducer"
       /\ \A i \in 1..m :
             /\ seq[n + 1 + i].fn = "subscriber"
             /\ seq[n + 1 + i].index = i - 1
             /\ seq[n + 1 + i].handle = e.subscriptions[i]

\* The calls of a pipeline a middleware stopped.
VetoedPipeline(seq, e) ==
    /\ Len(seq) \in 1..Len(e.middleware)
    /\ \A k \in 1..Len(seq) :
          /\ seq[k].fn = "middleware"
          /\ seq[k].index = k - 1
    /\ ~try_to_i64(seq[Len(seq)].ret).some

\* ----------------------------------------------------------------- C13
\* C13: the subscriptions of a dispatch are called strictly one after the
\* other also when one of them dispatches.  When the call of subscriber k
\* issues a dispatch, the calls that follow it are those of that nested
\* dispatch's whole pipeline (or of its middleware up to a veto), and only
\* after them comes the outer dispatch's call of subscriber k + 1, the
\* next in registration order; a subscriber that does not dispatch is
\* followed by the next one at once; after the last one the fan-out ends.
C13_SequentialUnderReentrancy ==
    \A j \in 1..Len(hist) :
        LET e == hist[j]
            m == Len(e.subscriptions)
        IN \A p \in 1..Len(e.calls) :
              LET c == e.calls[p]
                  q == SegmentEnd(e.calls, p)
                  nested == NestedUnder(e.calls, p)
              IN c.fn = "subscriber"
                 => /\ SubscriberDispatches(c.handle, c.state)
                       => \/ CompletePipeline(nested, e)
                          \/ VetoedPipeline(nested, e)
                    /\ ~SubscriberDispatches(c.handle, c.state) => q = p + 1
                    /\ c.index + 1 < m
                       => /\ q <= Len(e.calls)
                          /\ e.calls[q].fn = "subscriber"
                          /\ e.calls[q].depth = c.depth
                          /\ e.calls[q].index = c.index + 1
                          /\ e.calls[q].handle = e.subscriptions[c.index + 2]
                    /\ c.index + 1 = m
                       => \/ q = Len(e.calls) + 1
                          \/ e.calls[q].depth < c.depth

\* The first of two subscribers dispatched when it was told of the new
\* state: the nested dispatch called the reducer and both subscribers, and
\* then the outer dispatch called the second subscriber.
C13_Witness ==
    \E j \in 1..Len(hist) :
        LET cs == hist[j].calls
        IN /\ hist[j].subscriptions = <<"redispatch_callback", "print_counter">>
           /\ hist[j].middleware = <<>>
           /\ [i \in 1..Len(cs) |-> <<cs[i].fn, cs[i].index, cs[i].depth>>]
                = << <<"reducer", 0, 0>>, <<"subscriber", 0, 0>>,
                     <<"reducer", 0, 1>>, <<"subscriber", 0, 1>>,
                     <<"subscriber", 1, 1>>, <<"subscriber", 1, 0>> >>

\* ----------------------------------------------------------------- C14
\* The state the store holds when the q-th call of a dispatch is made: what
\* the last reducer call before it returned, read as a dictionary, or the
\* state from before the dispatch when no reducer was called yet.
CurrentAt(e, q) ==
    LET before == {p \in 1..(q - 1) : e.calls[p].fn = "reducer"}
    IN IF before = {} THEN e.pre
       ELSE to_dictionary(
              e.calls[CHOOSE p \in before : \A r \in before : r <= p].ret)

\* The call from inside which the dispatch making the q-th call was issued.
Trigger(e, q) ==
    CHOOSE p \in 1..(q - 1) :
        /\ e.calls[p].depth = e.calls[q].depth - 1
        /\ \A r \in (p + 1)..(q - 1) : e.calls[r].depth >= e.calls[q].depth

\* The middleware and reducer calls of the dispatches issued from inside a
\* call of the caller's dispatch.
NestedCalls(e) ==
    {q \in 1..Len(e.calls) :
        /\ e.calls[q].depth = 1
        /\ e.calls[q].fn \in {"middleware", "reducer"}}

\* C14 as stated: every dispatch issued from inside a subscriber has its
\* middleware and reducer called with the state the outer dispatch's
\* reducer returned, and every dispatch issued from inside a middleware
\* has them called with the state from before the outer dispatch.
C14_NestedSeesOuterCommit ==
    \A j \in 1..Len(hist) :
        LET e == hist[j]
        IN \A q \in NestedCalls(e) :
              LET by == e.calls[Trigger(e, q)]
                  outer == SelectSeq(e.calls, LAMBDA c :
                               c.fn = "reducer" /\ c.depth = 0)
              IN /\ by.fn = "subscriber"
                    => e.calls[q].state = to_dictionary(outer[1].ret)
                 /\ by.fn = "middleware" => e.calls[q].state = e.pre

\* C14: every middleware and reducer call of a dispatch issued from inside
\* a callable is made with the state the store holds at that moment.  That
\* is the state the outer dispatch's reducer returned when the dispatch is
\* issued from a subscriber, and the state from before the outer dispatch
\* when it is issued from a middleware, as long as no earlier nested
\* dispatch has replaced the state since; after one has, it is the state
\* that one committed.
C14_NestedSeesCurrentState ==
    \A j \in 1..Len(hist) :
        LET e == hist[j]
        IN \A q \in 1..Len(e.calls) :
              (e.calls[q].depth >= 1
               /\ e.calls[q].fn \in {"middleware", "reducer"})
              => LET by == e.calls[Trigger(e, q)]
                     reducers == {p \in 1..(q - 1) :
                                    e.calls[p].fn = "reducer"}
                 IN /\ e.calls[q].state = CurrentAt(e, q)
                    /\ (by.fn = "subscriber" /\ by.depth = 0
                        /\ Cardinality(reducers) = 1)
                       => e.calls[q].state =
                            to_dictionary(
                              e.calls[CHOOSE p \in reducers : TRUE].ret)
                    /\ (by.fn = "middleware" /\ by.depth = 0
                        /\ reducers = {})
                       => e.calls[q].state = e.pre

\* Two subscribers dispatched in turn from one fan-out: the reducer of the
\* first nested dispatch was called with the state the outer reducer had
\* returned, the reducer of the second with the state the first nested
\* dispatch had committed.
C14_Witness ==
    \E j \in 1..Len(hist) :
        LET e == hist[j]
            rs == CallsTo(e, "reducer")
        IN /\ e.subscriptions = <<"redispatch_callback", "redispatch_callback">>
           /\ Len(rs) = 3
           /\ rs[1].depth = 0 /\ rs[2].depth = 1 /\ rs[3].depth = 1
           /\ rs[2].state = to_dictionary(rs[1].ret)
           /\ rs[2].state # e.pre
           /\ rs[3].state = to_dictionary(rs[2].ret)
           /\ rs[3].state # rs[2].state

\* ----------------------------------------------------------------- C15
\* C15 as stated: when the call of a subscriber fails, the dispatch stops
\* there: the failed call is its last call, no subscriber registered after
\* the failing one is called, and the state the reducer returned stays.
C15_SubscriberFailureAborts ==
    \A j \in 1..Len(hist) :
        LET e == hist[j]
        IN \A p \in 1..Len(e.calls) :
              (e.calls[p].fn = "subscriber" /\ e.calls[p].failed)
              => /\ p = Len(e.calls)
                 /\ e.post = e.calls[p].state

\* ----------------------------------------------------------------- C16
\* C16: with callables that return and do not dispatch, a dispatch on a
\* store with n middleware and m subscribers makes at most n middleware
\* calls (no middleware twice), then at most one reducer call, then at
\* most m subscriber calls (no subscriber twice), and nothing after the
\* call of the last subscriber: that call is the end of the dispatch.
C16_BoundedPipeline ==
    \A j \in 1..Len(hist) :
        LET e == hist[j]
            n == Len(e.middleware)
            m == Len(e.subscriptions)
            mws == CallsTo(e, "middleware")
            rcs == CallsTo(e, "reducer")
            sbs == CallsTo(e, "subscriber")
        IN /\ Len(mws) <= n
           /\ \A k \in 1..Len(mws) : mws[k].index = k - 1
           /\ Len(rcs) <= 1
           /\ Len(sbs) <= m
           /\ \A i \in 1..Len(sbs) : sbs[i].index = i - 1
           /\ e.calls = mws \o rcs \o sbs
           /\ sbs # <<>>
              => /\ e.calls[Len(e.calls)].fn = "subscriber"
                 /\ e.calls[Len(e.calls)].index = m - 1

\* A dispatch on a store with two middleware and a subscriber made all
\* four calls it can make.
C16_Witness ==
    \E j \in 1..Len(hist) :
        /\ Len(hist[j].middleware) = 2
        /\ Len(hist[j].subscriptions) = 1
        /\ Len(hist[j].calls) = 4
        /\ hist[j].calls[4].fn = "subscriber"

\* ----------------------------------------------------------------- C17
\* The reducer call of the dispatch whose fan-out the q-th call belongs to:
\* the last reducer call before it at the same depth.
OwnReducer(e, q) ==
    LET own == {p \in 1..(q - 1) :
                  e.calls[p].fn = "reducer"
                  /\ e.calls[p].depth = e.calls[q].depth}
    IN CHOOSE p \in own : \A r \in own : r <= p

\* C17: every subscriber call of one fan-out is made with the same state,
\* the one the reducer of that same dispatch returned (read as a
\* dictionary), also when an earlier subscriber of the fan-out has
\* dispatched and the store holds another state by then.
C17_SameStateAcrossFanOut ==
    \A j \in 1..Len(hist) :
        LET e == hist[j]
        IN \A q \in 1..Len(e.calls) :
              e.calls[q].fn = "subscriber"
              => e.calls[q].state =
                    to_dictionary(e.calls[OwnReducer(e, q)].ret)

\* The first subscriber dispatched and the store's state was replaced; the
\* second subscriber of the outer dispatch was still called with the state
\* the outer reducer had returned, not with the one the store held by then.
C17_Witness ==
    \E j \in 1..Len(hist) :
        LET e == hist[j]
        IN \E q \in 1..Len(e.calls) :
              /\ e.calls[q].fn = "subscriber"
              /\ e.calls[q].depth = 0
              /\ e.calls[q].index = 1
              /\ e.calls[q].state # CurrentAt(e, q)
              /\ e.calls[q].state # e.post
              /\ e.calls[q].state = to_dictionary(e.calls[OwnReducer(e, q)].ret)

\* ----------------------------------------------------------------- C18
\* C18: a dispatch, run to the end or stopped by a middleware, leaves the
\* reducer, the middleware list and the subscriptions exactly as they
\* were, so after any run of dispatches the store is configured as before
\* it: every dispatch since the last reset ran on the reducer the store
\* still has.
C18_DispatchKeepsConfiguration ==
    [][Len(hist') = Len(hist) + 1
       => /\ reducer' = reducer
          /\ middleware' = middleware
          /\ subscriptions' = subscriptions
          /\ \A j \in 1..Len(hist') : hist'[j].reducer = reducer'
      ]_vars

\* A configured store with a middleware and a subscriber has been through
\* a dispatch that ran to the end and one that a middleware stopped, and
\* still has all three.
C18_Witness ==
    /\ config.set
    /\ reducer = "reducer"
    /\ middleware = <<"veto_middleware">>
    /\ subscriptions = <<"print_counter">>
    /\ \E j \in 1..Len(hist) : Len(hist[j].calls) = 3
    /\ \E j \in 1..Len(hist) :
          /\ Len(hist[j].calls) = 1
          /\ hist[j].middleware = middleware

\* ----------------------------------------------------------------- C19
\* C19: the methods other than dispatch call no user callable.  A
\* set_state_and_reducer step makes the initial state it was given the
\* state without running the reducer on it and without telling a
\* subscriber, a state() step returns the state as it is, and subscribe,
\* add_middleware and state() leave the state and the record of past
\* dispatches untouched; none of them ever adds a call to the log of calls
\* made outside dispatch.
C19_ConfigurationCallsNothing ==
    [][/\ configCalls' = <<>>
       /\ ResetStep
          => DeepVal(heap', state') = config'.initial_state
       /\ (Len(subsSince') = Len(subsSince) + 1
           \/ Len(mwSince') = Len(mwSince) + 1)
          => /\ DeepVal(heap', state') = DeepVal(heap, state)
             /\ hist' = hist
       /\ held' # NullRef
          => /\ DeepVal(heap', state') = DeepVal(heap, state)
             /\ DeepVal(heap', held') = DeepVal(heap, state)
             /\ hist' = hist
      ]_vars

\* A store with a subscriber was reset, a callback was subscribed and
\* state() was called: no callable had been called and state() returned
\* the initial state.
C19_Witness ==
    /\ config.set
    /\ config.discarded
    /\ config.reducer = "reducer"
    /\ subscriptions # <<>>
    /\ hist = <<>>
    /\ held # NullRef
    /\ DeepVal(heap, held) = config.initial_state
    /\ configCalls = <<>>
====
